---- MODULE Spec2Model ----
(***************************************************************************)
(* Verification model of copernicusWeather2psdmWeather: the coordinate     *)
(* grid builder (create_coordinates_df), the coordinate deduplicator       *)
(* (insert_coordinate), the batch converters (convert_netCFD,              *)
(* convert_grib) and the time-column migration (migrate_time_column).      *)
(* Each component has its own specification over the shared variables; the *)
(* variables of the other components stay idle.                            *)
(***************************************************************************)
EXTENDS Integers, Sequences, FiniteSets, TLC

(***************************************************************************)
(* Bounds of the model.                                                    *)
(***************************************************************************)
MaxAxisLen == 3
MaxCalls == 3
NumCallers == 2
NumTimes == 2
MaxBatch == 3
MaxRows == 2

AxisValues == {10, 20}

VARIABLES
    \* ---- Coordinate Grid Builder (coordinates.py, create_coordinates_df)
    weather_lats,     \* weather.variables["latitude"]
    weather_lons,     \* weather.variables["longitude"]
    grid_pc,          \* "idle" | "start" | "returned"
    session_add_all,  \* the calls of session.add_all, each a list of Coordinate
    session_commits,  \* the number of calls of session.commit by the grid builder
    grid_result,      \* the returned dict (a function), or the empty function
    \* ---- Coordinate Deduplicator (coordinates.py, insert_coordinate)
    coordinate_table, \* the committed rows of table coordinate: [id, x, y]
    calls,            \* the finished calls: [lat, lon, ret, raised, inserted]
    caller_pc,        \* per caller: "idle" | "query" | "max_id" | "commit" | "except" | "raised"
    caller_arg,       \* per caller: <<lat, lon>> of the call in progress
    caller_new_id,    \* per caller: new_id, computed from the max id it read
    \* ---- Batch Converter (convert.py, convert_netCFD and convert_grib); the
    \* same conversion is run with two batch sizes side by side (Runs)
    conv_format,      \* "none" | "netcdf" | "grib"
    ds_variables,     \* the variable names of the GRIB dataset (ds.variables)
    source,           \* the source arrays: <<time_idx, lat_idx, lon_idx>> -> values
    coordinates,      \* the items of the coordinates dict, in iteration order
    batch_size,       \* per run: batch_size
    conv_pc,          \* "idle" | "start" | "loop" | "final" | "returned" | "raised"
    time_idx,         \* index of the timestep being processed
    cell_idx,         \* index (from 1) of the dict item being processed
    weather_values,   \* per run: the accumulation buffer
    total_records,    \* per run: total_records
    session_batches,  \* per run: the committed add_all batches, in order
    conv_error,       \* the exception that ended the conversion, if any
    \* ---- Migration Step (db_migration.py, migrate_time_column)
    db_tables,        \* the committed tables: name -> [time_type, primary_key, rows]
    tx_tables,        \* the tables as the migration's open transaction sees them
    mig_pc,           \* "idle" | "start" | "running" | "done" | "failed"
    mig_step,         \* the number of migration statements executed
    mig_failed_at,    \* the number of the statement that failed, or 0
    mig_raised,       \* the exception reached the caller of migrate_time_column
    mig_original,     \* table weathervalue as it was when the migration began
    session_timezone, \* TimeZone of the database session: its offset from UTC, in seconds
    \* ---- Ingestion run (main.py, main; processor.py, process_weather_data)
    args_perform_migration, \* args.perform_migration: FALSE under --no-migration
    config_source,    \* the YAML file at args.config_path: [exists, keys]
    files,            \* the candidate files that exist, by suffix after the base name
    names_bound,      \* the globals logger and logging of module processor are bound
    run_pc,           \* position of the run in main and process_weather_data
    config,           \* what main reads from the loaded configuration
    probed,           \* the file names tested with os.path.exists
    found_files,      \* found_files, as suffixes; <<>> for None
    file_format,      \* file_format; "None" before discovery
    perform_migration, \* perform_migration as passed to process_weather_data
    run_error,        \* the exception that reached main's except clause, or "none"
    exit_status,      \* the value main returns; -1 while it runs
    session_state,    \* Session(engine): "none" | "open" | "closed"
    attempt,          \* attempt of the database initialisation loop
    retry_delay,      \* retry_delay, in seconds
    sleeps,           \* the arguments of the calls of time.sleep, in order
    open_datasets     \* the dataset handles that are open

gridVars == <<weather_lats, weather_lons, grid_pc, session_add_all,
              session_commits, grid_result>>

dedupVars == <<coordinate_table, calls, caller_pc, caller_arg, caller_new_id>>

convVars == <<conv_format, ds_variables, source, coordinates, batch_size, conv_pc,
              time_idx, cell_idx, weather_values, total_records, session_batches,
              conv_error>>

migVars == <<db_tables, tx_tables, mig_pc, mig_step, mig_failed_at, mig_raised,
             mig_original, session_timezone>>

runVars == <<args_perform_migration, config_source, files, names_bound, run_pc,
             config, probed, found_files, file_format, perform_migration, run_error,
             exit_status, session_state, attempt, retry_delay, sleeps, open_datasets>>

vars == <<gridVars, dedupVars, convVars, migVars, runVars>>

(***************************************************************************)
(* numpy arrays: a shape and the data in C (row-major) order.              *)
(***************************************************************************)
SeqsUpTo(S, n) == UNION {[1..k -> S] : k \in 0..n}

Arange(n) == [k \in 1..n |-> k - 1]

\* Mutant: meshgrid with indexing "ij", X[a, b] = x[a], Y[a, b] = y[b].
MeshgridStackIJ(x, y) ==
    LET s1 == Len(x)
        s2 == Len(y)
    IN  [shape |-> <<2, s1, s2>>,
         data  |-> [n \in 1..(2 * s1 * s2) |->
                      LET f == n - 1
                          k == f \div (s1 * s2)
                          a == (f % (s1 * s2)) \div s2
                          b == f % s2
                      IN  IF k = 0 THEN x[a + 1] ELSE y[b + 1]]]

\* np.array(np.meshgrid(x, y)): default indexing "xy" gives two arrays of
\* shape (len(y), len(x)); X[a, b] = x[b], Y[a, b] = y[a]. Stacked: shape
\* (2, len(y), len(x)).
MeshgridStack(x, y) ==
    LET s1 == Len(y)
        s2 == Len(x)
    IN  [shape |-> <<2, s1, s2>>,
         data  |-> [n \in 1..(2 * s1 * s2) |->
                      LET f == n - 1
                          k == f \div (s1 * s2)
                          a == (f % (s1 * s2)) \div s2
                          b == f % s2
                      IN  IF k = 0 THEN x[b + 1] ELSE y[a + 1]]]

\* ndarray.T of a 3-d array: the axes reversed, T[p, q, r] = A[r, q, p].
TransposeArr(A) ==
    LET s0 == A.shape[1]
        s1 == A.shape[2]
        s2 == A.shape[3]
    IN  [shape |-> <<s2, s1, s0>>,
         data  |-> [n \in 1..(s0 * s1 * s2) |->
                      LET f == n - 1
                          p == f \div (s1 * s0)
                          q == (f % (s1 * s0)) \div s0
                          r == f % s0
                      IN  A.data[(r * s1 + q) * s2 + p + 1]]]

\* ndarray.reshape(-1, 2): the same data, in rows of two.
Reshape2(A) ==
    [n \in 1..(Len(A.data) \div 2) |-> <<A.data[2 * n - 1], A.data[2 * n]>>]

\* Coordinate.from_xy(id, x, y): the point geometry (x, y) under that id.
from_xy(id, x, y) == [id |-> id, x |-> x, y |-> y]

\* lines 18-21: the (lat, lon) pairs and the (lat_idx, lon_idx) pairs.
Latlons(lats, lons) == Reshape2(TransposeArr(MeshgridStack(lats, lons)))

LatlonsIdx(lats, lons) ==
    Reshape2(TransposeArr(MeshgridStack(Arange(Len(lats)), Arange(Len(lons)))))

\* lines 24-38: the DataFrame rows, then Coordinate(id=i, ...) per row, i the
\* DataFrame index 0, 1, ...
GridCoordinates(lats, lons) ==
    LET latlons == Latlons(lats, lons)
        latlons_idx == LatlonsIdx(lats, lons)
        column == [n \in 1..Len(latlons_idx) |->
                     from_xy(latlons_idx[n], latlons[n][2], latlons[n][1])]
    IN  [n \in 1..Len(column) |->
           [id |-> n - 1, x |-> column[n].x, y |-> column[n].y]]

\* Mutant: the dict counts the cells from 1.
GridDictFromOne(lats, lons) ==
    LET latlons_idx == LatlonsIdx(lats, lons)
        keys == {latlons_idx[n] : n \in 1..Len(latlons_idx)}
    IN  [k \in keys |-> CHOOSE n \in 1..Len(latlons_idx) : latlons_idx[n] = k]

\* line 43: {tuple(idx): i for i, idx in enumerate(latlons_idx)}; a later
\* entry of a dict comprehension overwrites an earlier one with the same key.
GridDict(lats, lons) ==
    LET latlons_idx == LatlonsIdx(lats, lons)
        keys == {latlons_idx[n] : n \in 1..Len(latlons_idx)}
    IN  [k \in keys |->
           (CHOOSE n \in 1..Len(latlons_idx) :
               /\ latlons_idx[n] = k
               /\ \A m \in 1..Len(latlons_idx) : latlons_idx[m] = k => m <= n) - 1]

EmptyDict == [k \in {} |-> 0]

GridIdle ==
    /\ weather_lats = <<>>
    /\ weather_lons = <<>>
    /\ grid_pc = "idle"
    /\ session_add_all = <<>>
    /\ session_commits = 0
    /\ grid_result = EmptyDict

Callers == 1..NumCallers

DedupIdle ==
    /\ coordinate_table = {}
    /\ calls = <<>>
    /\ caller_pc = [c \in Callers |-> "idle"]
    /\ caller_arg = [c \in Callers |-> <<0, 0>>]
    /\ caller_new_id = [c \in Callers |-> 0]

Runs == {1, 2}

NoError == [type |-> "none", missing |-> <<>>]

ConvIdle ==
    /\ conv_format = "none"
    /\ ds_variables = {}
    /\ source = EmptyDict
    /\ coordinates = <<>>
    /\ batch_size = [r \in Runs |-> 0]
    /\ conv_pc = "idle"
    /\ time_idx = 0
    /\ cell_idx = 0
    /\ weather_values = [r \in Runs |-> <<>>]
    /\ total_records = [r \in Runs |-> 0]
    /\ session_batches = [r \in Runs |-> <<>>]
    /\ conv_error = NoError

EmptyTable == [time_type |-> "timestamp", primary_key |-> TRUE, rows |-> {}]

MigIdle ==
    /\ db_tables = [n \in {"weathervalue"} |-> EmptyTable]
    /\ tx_tables = db_tables
    /\ mig_pc = "idle"
    /\ mig_step = 0
    /\ mig_failed_at = 0
    /\ mig_raised = FALSE
    /\ mig_original = EmptyTable
    /\ session_timezone = 0

NoConfig == [input_dir |-> "None", file_name_base |-> "None"]

RunIdle ==
    /\ args_perform_migration = TRUE
    /\ config_source = [exists |-> FALSE, keys |-> {}]
    /\ files = {}
    /\ names_bound = FALSE
    /\ run_pc = "idle"
    /\ config = NoConfig
    /\ probed = {}
    /\ found_files = <<>>
    /\ file_format = "None"
    /\ perform_migration = FALSE
    /\ run_error = "none"
    /\ exit_status = -1
    /\ session_state = "none"
    /\ attempt = 0
    /\ retry_delay = 0
    /\ sleeps = <<>>
    /\ open_datasets = {}

Range(f) == {f[n] : n \in DOMAIN f}

\* An insert violates the primary key of coordinate (models.py line 18) when
\* the id is taken; the geometry column carries no constraint (models.py
\* lines 21-25).
IntegrityError(table, row) == \E r \in table : r.id = row.id

\* The coordinate tables a run of the grid builder or an ingestion run can
\* start from: empty, or holding the coordinate of an earlier import.
RunStartTables == {{}, Range(GridCoordinates(<<10>>, <<20>>))}

GridInit ==
    /\ coordinate_table \in RunStartTables
    /\ calls = <<>>
    /\ caller_pc = [c \in Callers |-> "idle"]
    /\ caller_arg = [c \in Callers |-> <<0, 0>>]
    /\ caller_new_id = [c \in Callers |-> 0]
    /\ ConvIdle
    /\ MigIdle
    /\ RunIdle
    /\ weather_lats \in SeqsUpTo(AxisValues, MaxAxisLen)
    /\ weather_lons \in SeqsUpTo(AxisValues, MaxAxisLen)
    /\ grid_pc = "start"
    /\ session_add_all = <<>>
    /\ session_commits = 0
    /\ grid_result = EmptyDict

\* Mutant: the rows are committed in two halves.
CreateCoordinatesDfInHalves ==
    /\ grid_pc = "start"
    /\ LET added == GridCoordinates(weather_lats, weather_lons)
           half == Len(added) \div 2
       IN  /\ session_add_all' =
                  session_add_all \o <<SubSeq(added, 1, half),
                                       SubSeq(added, half + 1, Len(added))>>
           /\ session_commits' = session_commits + 2
           /\ coordinate_table' = coordinate_table \cup Range(added)
           /\ grid_result' = GridDict(weather_lats, weather_lons)
           /\ grid_pc' = "returned"
    /\ UNCHANGED <<weather_lats, weather_lons>>
    /\ UNCHANGED <<calls, caller_pc, caller_arg, caller_new_id>>
    /\ UNCHANGED <<convVars, migVars, runVars>>

\* create_coordinates_df(weather, session): one add_all, one commit, which
\* persists the rows or raises when an id is taken
CreateCoordinatesDf ==
    /\ grid_pc = "start"
    /\ LET added == GridCoordinates(weather_lats, weather_lons)
       IN  /\ session_add_all' = Append(session_add_all, added)
           /\ session_commits' = session_commits + 1
           /\ IF \E n \in 1..Len(added) : IntegrityError(coordinate_table, added[n])
              THEN /\ grid_pc' = "raised"
                   /\ UNCHANGED <<coordinate_table, grid_result>>
              ELSE /\ coordinate_table' = coordinate_table \cup Range(added)
                   /\ grid_result' = GridDict(weather_lats, weather_lons)
                   /\ grid_pc' = "returned"
    /\ UNCHANGED <<weather_lats, weather_lons>>
    /\ UNCHANGED <<calls, caller_pc, caller_arg, caller_new_id>>
    /\ UNCHANGED <<convVars, migVars, runVars>>

SpecGrid == GridInit /\ [][CreateCoordinatesDf]_vars

\* C1: for latitude length L and longitude length M the builder adds exactly
\* L*M coordinates with ids 0, 1, ..., L*M-1 in insertion order, and returns
\* a dict with keys {(i, j) : i < L, j < M} and dict[(i, j)] = i*M + j.
C1_GridIds ==
    grid_pc = "returned" =>
        LET L == Len(weather_lats)
            M == Len(weather_lons)
            added == session_add_all[Len(session_add_all)]
        IN  /\ Len(added) = L * M
            /\ \A n \in 1..(L * M) : added[n].id = n - 1
            /\ DOMAIN grid_result = {<<i, j>> : i \in 0..(L - 1), j \in 0..(M - 1)}
            /\ \A i \in 0..(L - 1) : \A j \in 0..(M - 1) :
                   grid_result[<<i, j>>] = i * M + j

C1_Witness ==
    /\ grid_pc = "returned"
    /\ Len(weather_lats) = 3
    /\ Len(weather_lons) = 2
    /\ grid_result[<<2, 1>>] = 5

\* C17: each call of create_coordinates_df performs exactly one bulk insert
\* (one session.add_all with all L*M coordinates) and exactly one commit on
\* the session, and no other write: the table gains the added rows only.
C17_OneInsertOneCommit ==
    /\ grid_pc = "start" => (session_add_all = <<>> /\ session_commits = 0)
    /\ grid_pc \in {"returned", "raised"} =>
           /\ Len(session_add_all) = 1
           /\ Len(session_add_all[1]) = Len(weather_lats) * Len(weather_lons)
           /\ session_commits = 1
    /\ grid_pc = "returned" =>
           \E start \in RunStartTables :
               coordinate_table = start \cup Range(session_add_all[1])
    /\ grid_pc = "raised" => coordinate_table \in RunStartTables

C17_Witness ==
    /\ grid_pc = "returned"
    /\ Len(weather_lats) = 2
    /\ Len(weather_lons) = 3
    /\ Len(session_add_all) = 1
    /\ Len(session_add_all[1]) = 6
    /\ session_commits = 1

\* a call on a table that holds id 0 already: the commit raises
C17_WitnessRaised ==
    /\ grid_pc = "raised"
    /\ Len(session_add_all) = 1
    /\ session_commits = 1

(***************************************************************************)
(* Coordinate Deduplicator: insert_coordinate(session, lat, lon).          *)
(***************************************************************************)
\* lines 58-59: point = Point(lon, lat), the geometry of the lookup.
LookupPoint(lat, lon) == [x |-> lon, y |-> lat]

\* lines 62-66 and 84-88: the rows whose geometry equals the lookup point;
\* .first() returns one of them.
Existing(table, lat, lon) ==
    {r \in table : r.x = LookupPoint(lat, lon).x /\ r.y = LookupPoint(lat, lon).y}

\* lines 72-73: max_id = max(Coordinate.id), None on an empty table;
\* new_id = (max_id or 0) + 1.
NewId(table) ==
    IF table = {} THEN 1
    ELSE (CHOOSE m \in {r.id : r \in table} : \A r \in table : r.id <= m) + 1

\* line 74: new_coordinate = Coordinate.from_xy(id=new_id, x=lat, y=lon).
NewCoordinate(new_id, lat, lon) == from_xy(new_id, lat, lon)

CallRecord(lat, lon, ret, raised, inserted) ==
    [lat |-> lat, lon |-> lon, ret |-> ret, raised |-> raised, inserted |-> inserted]

\* The tables a run can start from: empty, or filled by the grid builder.
StartGrids == {<< <<>>, <<>> >>, << <<10>>, <<20>> >>, << <<10, 20>>, <<10>> >>}

StartTables == {Range(GridCoordinates(g[1], g[2])) : g \in StartGrids}

\* One whole call with no other session active (sequential callers).
InsertCoordinate(lat, lon) ==
    /\ Len(calls) < MaxCalls
    /\ LET existing_coordinate == Existing(coordinate_table, lat, lon)
           new_id == NewId(coordinate_table)
           new_coordinate == NewCoordinate(new_id, lat, lon)
       IN  IF existing_coordinate # {}
           THEN \E r \in existing_coordinate :
                    /\ calls' = Append(calls, CallRecord(lat, lon, r.id, FALSE, {}))
                    /\ UNCHANGED coordinate_table
           ELSE IF ~IntegrityError(coordinate_table, new_coordinate)
           THEN /\ coordinate_table' = coordinate_table \cup {new_coordinate}
                /\ calls' = Append(calls,
                       CallRecord(lat, lon, new_coordinate.id, FALSE, {new_coordinate}))
           ELSE \* except IntegrityError: rollback, query again, return or raise
                IF Existing(coordinate_table, lat, lon) # {}
                THEN \E r \in Existing(coordinate_table, lat, lon) :
                         /\ calls' = Append(calls, CallRecord(lat, lon, r.id, FALSE, {}))
                         /\ UNCHANGED coordinate_table
                ELSE /\ calls' = Append(calls, CallRecord(lat, lon, 0, TRUE, {}))
                     /\ UNCHANGED coordinate_table
    /\ UNCHANGED <<caller_pc, caller_arg, caller_new_id>>
    /\ UNCHANGED <<gridVars, convVars, migVars, runVars>>

SeqInit ==
    /\ GridIdle
    /\ ConvIdle
    /\ MigIdle
    /\ RunIdle
    /\ coordinate_table \in StartTables
    /\ calls = <<>>
    /\ caller_pc = [c \in Callers |-> "idle"]
    /\ caller_arg = [c \in Callers |-> <<0, 0>>]
    /\ caller_new_id = [c \in Callers |-> 0]

SeqNext == \E lat \in AxisValues, lon \in AxisValues : InsertCoordinate(lat, lon)

SpecSeq == SeqInit /\ [][SeqNext]_vars

\* The grid half of C2: the coordinate with id i*M + j has the point
\* (lons[j], lats[i]).
GridGeometry ==
    grid_pc = "returned" =>
        LET L == Len(weather_lats)
            M == Len(weather_lons)
            added == session_add_all[Len(session_add_all)]
        IN  \A i \in 0..(L - 1) : \A j \in 0..(M - 1) :
                added[i * M + j + 1] =
                    [id |-> i * M + j, x |-> weather_lons[j + 1], y |-> weather_lats[i + 1]]

\* C2: every persisted Coordinate carries the point (x = longitude,
\* y = latitude) of its cell: the grid builder's row i*M + j has the point
\* (lons[j], lats[i]), and the row inserted by insert_coordinate(lat, lon) has
\* the point (lon, lat), the geometry of its own lookup.
C2_PointGeometry ==
    /\ GridGeometry
    /\ \A k \in 1..Len(calls) : \A r \in calls[k].inserted :
           /\ r.x = calls[k].lon
           /\ r.y = calls[k].lat
           /\ [x |-> r.x, y |-> r.y] = LookupPoint(calls[k].lat, calls[k].lon)

NoDuplicateGeometry ==
    \A r1 \in coordinate_table : \A r2 \in coordinate_table :
        (r1.x = r2.x /\ r1.y = r2.y) => r1 = r2

\* C3: under sequential callers, two calls with the same (lat, lon) return
\* the same id and leave exactly one row for that point, and no two rows of
\* the table ever share a point geometry.
C3_SequentialIdempotent ==
    /\ \A k \in 1..Len(calls) : \A m \in 1..Len(calls) :
           (k < m /\ calls[k].lat = calls[m].lat /\ calls[k].lon = calls[m].lon) =>
               /\ ~calls[k].raised /\ ~calls[m].raised
               /\ calls[k].ret = calls[m].ret
               /\ Cardinality(Existing(coordinate_table, calls[k].lat, calls[k].lon)) = 1
    /\ NoDuplicateGeometry

(***************************************************************************)
(* Concurrent callers: each caller is a separate session on the same       *)
(* table; every statement of insert_coordinate is one step.                *)
(***************************************************************************)
InFlight(c) == caller_pc[c] \in {"query", "max_id", "commit", "except"}

Finish(c, ret, raised, inserted) ==
    /\ calls' = Append(calls,
           CallRecord(caller_arg[c][1], caller_arg[c][2], ret, raised, inserted))
    /\ caller_pc' = [caller_pc EXCEPT ![c] = IF raised THEN "raised" ELSE "idle"]

\* the call insert_coordinate(session, lat, lon) begins
Begin(c, lat, lon) ==
    /\ caller_pc[c] = "idle"
    /\ Len(calls) + Cardinality({d \in Callers : InFlight(d)}) < MaxCalls
    /\ caller_pc' = [caller_pc EXCEPT ![c] = "query"]
    /\ caller_arg' = [caller_arg EXCEPT ![c] = <<lat, lon>>]
    /\ UNCHANGED <<coordinate_table, calls, caller_new_id>>
    /\ UNCHANGED <<gridVars, convVars, migVars, runVars>>

\* lines 62-69: the lookup finds a row and the call returns its id
QueryFound(c) ==
    /\ caller_pc[c] = "query"
    /\ \E r \in Existing(coordinate_table, caller_arg[c][1], caller_arg[c][2]) :
           Finish(c, r.id, FALSE, {})
    /\ UNCHANGED <<coordinate_table, caller_arg, caller_new_id>>
    /\ UNCHANGED <<gridVars, convVars, migVars, runVars>>

\* lines 62-68: the lookup finds nothing
QueryMissing(c) ==
    /\ caller_pc[c] = "query"
    /\ Existing(coordinate_table, caller_arg[c][1], caller_arg[c][2]) = {}
    /\ caller_pc' = [caller_pc EXCEPT ![c] = "max_id"]
    /\ UNCHANGED <<coordinate_table, calls, caller_arg, caller_new_id>>
    /\ UNCHANGED <<gridVars, convVars, migVars, runVars>>

\* lines 72-73: read the highest id
ReadMaxId(c) ==
    /\ caller_pc[c] = "max_id"
    /\ caller_new_id' = [caller_new_id EXCEPT ![c] = NewId(coordinate_table)]
    /\ caller_pc' = [caller_pc EXCEPT ![c] = "commit"]
    /\ UNCHANGED <<coordinate_table, calls, caller_arg>>
    /\ UNCHANGED <<gridVars, convVars, migVars, runVars>>

\* lines 74-79: add the new coordinate and commit; the call returns new_id
CommitInsert(c) ==
    /\ caller_pc[c] = "commit"
    /\ LET new_coordinate ==
               NewCoordinate(caller_new_id[c], caller_arg[c][1], caller_arg[c][2])
       IN  /\ ~IntegrityError(coordinate_table, new_coordinate)
           /\ coordinate_table' = coordinate_table \cup {new_coordinate}
           /\ Finish(c, new_coordinate.id, FALSE, {new_coordinate})
    /\ UNCHANGED <<caller_arg, caller_new_id>>
    /\ UNCHANGED <<gridVars, convVars, migVars, runVars>>

\* lines 76-81: the commit raises IntegrityError
CommitConflict(c) ==
    /\ caller_pc[c] = "commit"
    /\ IntegrityError(coordinate_table,
           NewCoordinate(caller_new_id[c], caller_arg[c][1], caller_arg[c][2]))
    /\ caller_pc' = [caller_pc EXCEPT ![c] = "except"]
    /\ UNCHANGED <<coordinate_table, calls, caller_arg, caller_new_id>>
    /\ UNCHANGED <<gridVars, convVars, migVars, runVars>>

\* lines 82-91: roll back, query again, return the id of the matching row
RecoverFound(c) ==
    /\ caller_pc[c] = "except"
    /\ \E r \in Existing(coordinate_table, caller_arg[c][1], caller_arg[c][2]) :
           Finish(c, r.id, FALSE, {})
    /\ UNCHANGED <<coordinate_table, caller_arg, caller_new_id>>
    /\ UNCHANGED <<gridVars, convVars, migVars, runVars>>

\* Mutant: with no match after the rollback the call starts over.
RecoverRetry(c) ==
    /\ caller_pc[c] = "except"
    /\ Existing(coordinate_table, caller_arg[c][1], caller_arg[c][2]) = {}
    /\ caller_pc' = [caller_pc EXCEPT ![c] = "max_id"]
    /\ UNCHANGED <<coordinate_table, calls, caller_arg, caller_new_id>>
    /\ UNCHANGED <<gridVars, convVars, migVars, runVars>>

\* lines 82-93: roll back, query again, no match: raise e
RecoverRaise(c) ==
    /\ caller_pc[c] = "except"
    /\ Existing(coordinate_table, caller_arg[c][1], caller_arg[c][2]) = {}
    /\ Finish(c, 0, TRUE, {})
    /\ UNCHANGED <<coordinate_table, caller_arg, caller_new_id>>
    /\ UNCHANGED <<gridVars, convVars, migVars, runVars>>

DedupInit ==
    /\ GridIdle
    /\ ConvIdle
    /\ MigIdle
    /\ RunIdle
    /\ coordinate_table \in StartTables
    /\ calls = <<>>
    /\ caller_pc = [c \in Callers |-> "idle"]
    /\ caller_arg = [c \in Callers |-> <<0, 0>>]
    /\ caller_new_id = [c \in Callers |-> 0]

DedupNext ==
    \E c \in Callers :
        \/ \E lat \in AxisValues, lon \in AxisValues : Begin(c, lat, lon)
        \/ QueryFound(c)
        \/ QueryMissing(c)
        \/ ReadMaxId(c)
        \/ CommitInsert(c)
        \/ CommitConflict(c)
        \/ RecoverFound(c)
        \/ RecoverRaise(c)

SpecDedup == DedupInit /\ [][DedupNext]_vars

\* C4: under any interleaving of concurrent callers each distinct (lat, lon)
\* resolves to exactly one persisted coordinate id: once every call has
\* finished, all calls for the same pair returned the same id, exactly one
\* row exists for that pair, and no call ended in an error.
C4_ConcurrentResolve ==
    (\A c \in Callers : ~InFlight(c)) =>
        /\ \A k \in 1..Len(calls) : ~calls[k].raised
        /\ \A k \in 1..Len(calls) : \A m \in 1..Len(calls) :
               (calls[k].lat = calls[m].lat /\ calls[k].lon = calls[m].lon) =>
                   calls[k].ret = calls[m].ret
        /\ \A k \in 1..Len(calls) :
               Cardinality(Existing(coordinate_table, calls[k].lat, calls[k].lon)) = 1

\* The race of C4 without the swapped axes of C2: two callers with different
\* points on the diagonal (lat = lon) read the same max id; the second commit
\* violates the primary key and its recovery finds no row for its own point.
C4_RaceOnDistinctPoints ==
    /\ coordinate_table = {[id |-> 1, x |-> 10, y |-> 10]}
    /\ Len(calls) = 2
    /\ calls[1] = CallRecord(10, 10, 1, FALSE, {[id |-> 1, x |-> 10, y |-> 10]})
    /\ calls[2] = CallRecord(20, 20, 0, TRUE, {})

\* C20: when the insert of insert_coordinate violates the key, the call
\* rolls back (the table is left as it is), queries the requested point again
\* and returns the id of a matching row; only when no row matches is the error
\* raised; the recovery runs once, the call never goes back to the insert.
\* The except clause is entered from a failed commit only.
C20_RecoverOnce ==
    [][\A c \in Callers :
           /\ (caller_pc[c] # "except" /\ caller_pc'[c] = "except") =>
                  /\ caller_pc[c] = "commit"
                  /\ IntegrityError(coordinate_table,
                         NewCoordinate(caller_new_id[c], caller_arg[c][1], caller_arg[c][2]))
                  /\ coordinate_table' = coordinate_table
           /\ (caller_pc[c] = "except" /\ caller_pc'[c] # "except") =>
                  LET matching == Existing(coordinate_table, caller_arg[c][1], caller_arg[c][2])
                      result == calls'[Len(calls')]
                  IN  /\ coordinate_table' = coordinate_table
                      /\ Len(calls') = Len(calls) + 1
                      /\ result.lat = caller_arg[c][1]
                      /\ result.lon = caller_arg[c][2]
                      /\ result.inserted = {}
                      /\ IF matching # {}
                         THEN /\ ~result.raised
                              /\ result.ret \in {r.id : r \in matching}
                              /\ caller_pc'[c] = "idle"
                         ELSE /\ result.raised
                              /\ caller_pc'[c] = "raised"]_vars

\* two callers ask for the point (10, 10) of an empty table and both compute
\* new_id 1: the first inserts, the second fails, recovers and returns 1
C20_Witness ==
    /\ coordinate_table = {[id |-> 1, x |-> 10, y |-> 10]}
    /\ Len(calls) = 2
    /\ calls[1] = CallRecord(10, 10, 1, FALSE, {[id |-> 1, x |-> 10, y |-> 10]})
    /\ calls[2] = CallRecord(10, 10, 1, FALSE, {})
    /\ \A c \in Callers : caller_new_id[c] = 1
    /\ \A c \in Callers : caller_pc[c] = "idle"

(***************************************************************************)
(* Batch Converter: convert_netCFD and convert_grib.                       *)
(* A float is a number or NaN; a read outside an array raises IndexError.  *)
(* The irradiance values of the model are multiples of 7200, on which      *)
(* Python's division by 3600 and multiplication by 0.5 are exact.          *)
(***************************************************************************)
Num(v) == [kind |-> "num", v |-> v]

NaN == [kind |-> "nan", v |-> 0]

OutOfRange == [kind |-> "index_error", v |-> 0]

isnan(a) == a.kind = "nan"

FSub(a, b) == IF isnan(a) \/ isnan(b) THEN NaN ELSE Num(a.v - b.v)

FDiv(a, d) == IF isnan(a) THEN NaN ELSE Num(a.v \div d)

\* ssrd_data * 0.5 (convert.py line 211), element by element
Half(a) == IF a.kind = "num" THEN Num(a.v \div 2) ELSE a

Fields == {"t2m", "u100m", "v100m", "ssrd", "fdir"}

\* The values of the five source variables at one (time, cell) position.
GoodValues(pos) ==
    IF (pos[1] + pos[2] + pos[3]) % 2 = 0
    THEN [t2m |-> Num(280), u100m |-> Num(5), v100m |-> Num(-3),
          ssrd |-> Num(7200), fdir |-> Num(3600)]
    ELSE [t2m |-> Num(290), u100m |-> Num(0), v100m |-> Num(4),
          ssrd |-> Num(14400), fdir |-> Num(0)]

CellValues(pos, kind, field) ==
    IF kind = "nan" THEN [GoodValues(pos) EXCEPT ![field] = NaN]
    ELSE IF kind = "index_error" THEN [GoodValues(pos) EXCEPT ![field] = OutOfRange]
    ELSE GoodValues(pos)

\* time_values of the source, in milliseconds since 1970-01-01.
SourceTime(t) == t * 3600000

\* convert.py lines 40 and 67: strftime("%Y-%m-%dT%H:%M:%S") + "Z" keeps
\* whole seconds; strptime reads them back.
FormattedTime(ms) == ms \div 1000

ParsedTime(sec) == sec * 1000

\* convert.py lines 140-154
variable_mapping ==
    [t2m   |-> <<"t2m", "2t", "T_2M", "TMP_2maboveground">>,
     u100m |-> <<"u100", "u100m", "U_100M", "100u", "UGRD_100maboveground">>,
     v100m |-> <<"v100", "v100m", "V_100M", "100v", "VGRD_100maboveground">>,
     ssrd  |-> <<"ssrd", "ssr", "DSWRF_surface", "surface_downwelling_shortwave_flux">>,
     fdir  |-> <<"fdir", "direct_normal_irradiance", "DNI", "direct_solar">>]

\* lines 157-169: the first alias of each canonical name that the dataset has
ActualVariables(dsv) ==
    [c \in {c \in Fields : \E k \in DOMAIN variable_mapping[c] : variable_mapping[c][k] \in dsv}
       |-> LET names == variable_mapping[c]
               k == CHOOSE k \in DOMAIN names :
                        /\ names[k] \in dsv
                        /\ \A m \in DOMAIN names : names[m] \in dsv => k <= m
           IN  names[k]]

\* Mutant: direct irradiance treated as required too.
required_vars_with_fdir == <<"t2m", "u100m", "v100m", "ssrd", "fdir">>

\* line 172
required_vars == <<"t2m", "u100m", "v100m", "ssrd">>

\* line 173
MissingVars(actual_variables) ==
    LET absent(var) == var \notin DOMAIN actual_variables
    IN  SelectSeq(required_vars, absent)

\* The variable sets of the GRIB datasets of the model.
FirstAliases == {"t2m", "u100", "v100", "ssrd", "fdir"}

VariableSets ==
    {FirstAliases,
     {"2t", "100u", "100v", "ssr"},          \* later aliases, no direct irradiance
     FirstAliases \ {"t2m"},
     FirstAliases \ {"u100", "v100"},
     FirstAliases \ {"t2m", "ssrd"},
     {"fdir"}}

\* lines 58-63: the values read by convert_netCFD at a position
NetcdfExtract(values) == values

\* lines 199-211 and 217-221: the values read by convert_grib at a position
GribExtract(values, actual_variables) ==
    [values EXCEPT !.fdir = IF "fdir" \in DOMAIN actual_variables
                            THEN values.fdir ELSE Half(values.ssrd)]

RaisesIndexError(x) == \E f \in Fields : x[f].kind = "index_error"

\* Mutant: only the temperature is tested for NaN.
AnyNaNTempOnly(x) == isnan(x.t2m)

\* line 224: np.isnan([temp, u_wind, v_wind, ssrd, fdir]).any()
AnyNaN(x) == \E f \in Fields : isnan(x[f])

\* Mutant: the irradiance is stored without the division by 3600.
WeatherValueNoDiv(time, coordinate_id, x) ==
    [time |-> time, coordinate_id |-> coordinate_id,
     aswdifd_s |-> FSub(x.ssrd, x.fdir), aswdir_s |-> x.fdir,
     t2m |-> x.t2m, u131m |-> x.u100m, v131m |-> x.v100m]

\* lines 66-74 and 228-237
WeatherValue(time, coordinate_id, x) ==
    [time |-> time, coordinate_id |-> coordinate_id,
     aswdifd_s |-> FDiv(FSub(x.ssrd, x.fdir), 3600),
     aswdir_s |-> FDiv(x.fdir, 3600),
     t2m |-> x.t2m, u131m |-> x.u100m, v131m |-> x.v100m]

\* The items of the dict returned by the grid builder, in insertion order.
GridItems(lats, lons) ==
    LET latlons_idx == LatlonsIdx(lats, lons)
    IN  [n \in 1..Len(latlons_idx) |-> <<latlons_idx[n], GridDict(lats, lons)[latlons_idx[n]]>>]

GridShapes == {<< <<10>>, <<10>> >>, << <<10>>, <<10, 20>> >>, << <<10, 20>>, <<10>> >>}

Positions(items) ==
    {<<t, items[n][1][1], items[n][1][2]>> : t \in 0..(NumTimes - 1), n \in 1..Len(items)}

Position == <<time_idx, coordinates[cell_idx][1][1], coordinates[cell_idx][1][2]>>

coordinate_id == coordinates[cell_idx][2]

Flatten(batches) ==
    LET F[n \in 0..Len(batches)] == IF n = 0 THEN <<>> ELSE F[n - 1] \o batches[n]
    IN  F[Len(batches)]

\* Mutant: a full buffer is flushed but not cleared.
AppendRecordNoClear(record) ==
    /\ total_records' = [r \in Runs |-> total_records[r] + 1]
    /\ weather_values' = [r \in Runs |-> Append(weather_values[r], record)]
    /\ session_batches' =
           [r \in Runs |->
              IF Len(weather_values[r]) + 1 >= batch_size[r]
              THEN Append(session_batches[r], Append(weather_values[r], record))
              ELSE session_batches[r]]

\* Mutant: the buffer is flushed once it holds more than batch_size records.
AppendRecordLate(record) ==
    /\ total_records' = [r \in Runs |-> total_records[r] + 1]
    /\ weather_values' =
           [r \in Runs |->
              IF Len(weather_values[r]) + 1 > batch_size[r]
              THEN <<>> ELSE Append(weather_values[r], record)]
    /\ session_batches' =
           [r \in Runs |->
              IF Len(weather_values[r]) + 1 > batch_size[r]
              THEN Append(session_batches[r], Append(weather_values[r], record))
              ELSE session_batches[r]]

\* lines 76-86 and 239-249: append the record, count it, flush a full buffer
AppendRecord(record) ==
    /\ total_records' = [r \in Runs |-> total_records[r] + 1]
    /\ weather_values' =
           [r \in Runs |->
              IF Len(weather_values[r]) + 1 >= batch_size[r]
              THEN <<>> ELSE Append(weather_values[r], record)]
    /\ session_batches' =
           [r \in Runs |->
              IF Len(weather_values[r]) + 1 >= batch_size[r]
              THEN Append(session_batches[r], Append(weather_values[r], record))
              ELSE session_batches[r]]

\* the loops of lines 53/56 and 190/214 move to the next item or timestep
NextCell ==
    IF cell_idx < Len(coordinates)
    THEN /\ cell_idx' = cell_idx + 1
         /\ UNCHANGED <<time_idx, conv_pc>>
    ELSE IF time_idx + 1 < NumTimes
    THEN /\ cell_idx' = 1
         /\ time_idx' = time_idx + 1
         /\ UNCHANGED conv_pc
    ELSE /\ conv_pc' = "final"
         /\ UNCHANGED <<time_idx, cell_idx>>

ConvInputs == <<conv_format, ds_variables, source, coordinates, batch_size>>

\* convert_netCFD lines 35-51: read the arrays, start the loops
NetcdfOpen ==
    /\ conv_pc = "start"
    /\ conv_format = "netcdf"
    /\ conv_pc' = "loop"
    /\ time_idx' = 0
    /\ cell_idx' = 1
    /\ UNCHANGED <<ConvInputs, weather_values, total_records, session_batches, conv_error>>
    /\ UNCHANGED <<gridVars, dedupVars, migVars, runVars>>

\* convert_netCFD lines 56-86: one (time, cell) position
NetcdfCell ==
    /\ conv_pc = "loop"
    /\ conv_format = "netcdf"
    /\ LET x == NetcdfExtract(source[Position])
           time_value == FormattedTime(SourceTime(time_idx))
       IN  IF RaisesIndexError(x)
           THEN /\ conv_pc' = "raised"
                /\ conv_error' = [type |-> "IndexError", missing |-> <<>>]
                /\ UNCHANGED <<time_idx, cell_idx, weather_values, total_records,
                               session_batches>>
           ELSE /\ AppendRecord(WeatherValue(ParsedTime(time_value), coordinate_id, x))
                /\ NextCell
                /\ UNCHANGED conv_error
    /\ UNCHANGED ConvInputs
    /\ UNCHANGED <<gridVars, dedupVars, migVars, runVars>>

\* convert_grib lines 114-188: open the dataset, resolve the variables
GribOpen ==
    /\ conv_pc = "start"
    /\ conv_format = "grib"
    /\ LET actual_variables == ActualVariables(ds_variables)
           missing_vars == MissingVars(actual_variables)
       IN  IF missing_vars # <<>>
           THEN /\ conv_pc' = "raised"
                /\ conv_error' = [type |-> "ValueError", missing |-> missing_vars]
                /\ UNCHANGED <<time_idx, cell_idx>>
           ELSE /\ conv_pc' = "loop"
                /\ time_idx' = 0
                /\ cell_idx' = 1
                /\ UNCHANGED conv_error
    /\ UNCHANGED <<ConvInputs, weather_values, total_records, session_batches>>
    /\ UNCHANGED <<gridVars, dedupVars, migVars, runVars>>

\* convert_grib lines 214-255: one (time, cell) position
GribCell ==
    /\ conv_pc = "loop"
    /\ conv_format = "grib"
    /\ LET x == GribExtract(source[Position], ActualVariables(ds_variables))
           time_obj == SourceTime(time_idx)
       IN  IF RaisesIndexError(x) \/ AnyNaN(x)
           THEN UNCHANGED <<weather_values, total_records, session_batches>>
           ELSE AppendRecord(WeatherValue(time_obj, coordinate_id, x))
    /\ NextCell
    /\ UNCHANGED <<ConvInputs, conv_error>>
    /\ UNCHANGED <<gridVars, dedupVars, migVars, runVars>>

\* lines 88-94 and 257-263: commit what is left in the buffer, return
FinalFlush ==
    /\ conv_pc = "final"
    /\ session_batches' =
           [r \in Runs |->
              IF weather_values[r] # <<>>
              THEN Append(session_batches[r], weather_values[r])
              ELSE session_batches[r]]
    /\ conv_pc' = "returned"
    /\ UNCHANGED <<ConvInputs, time_idx, cell_idx, weather_values, total_records,
                   conv_error>>
    /\ UNCHANGED <<gridVars, dedupVars, migVars, runVars>>

ConvInit ==
    /\ GridIdle
    /\ DedupIdle
    /\ MigIdle
    /\ RunIdle
    /\ conv_format \in {"netcdf", "grib"}
    /\ ds_variables \in IF conv_format = "grib" THEN VariableSets ELSE {FirstAliases}
    /\ \E g \in GridShapes : coordinates = GridItems(g[1], g[2])
    /\ \E field \in Fields :
       \E kind \in [Positions(coordinates) -> {"ok", "nan", "index_error"}] :
           source = [pos \in Positions(coordinates) |-> CellValues(pos, kind[pos], field)]
    /\ batch_size \in {b \in [Runs -> 1..MaxBatch] : b[1] < b[2]}
    /\ conv_pc = "start"
    /\ time_idx = 0
    /\ cell_idx = 0
    /\ weather_values = [r \in Runs |-> <<>>]
    /\ total_records = [r \in Runs |-> 0]
    /\ session_batches = [r \in Runs |-> <<>>]
    /\ conv_error = NoError

ConvNext == NetcdfOpen \/ NetcdfCell \/ GribOpen \/ GribCell \/ FinalFlush

SpecConv == ConvInit /\ [][ConvNext]_vars

\* the committed WeatherValue rows of a run
Committed(r) == Flatten(session_batches[r])

\* the coordinate id of the cell of a position
IdOf(pos) ==
    LET n == CHOOSE n \in 1..Len(coordinates) : coordinates[n][1] = <<pos[2], pos[3]>>
    IN  coordinates[n][2]

\* the values the converter extracts at a position
Extracted(pos) ==
    IF conv_format = "grib"
    THEN GribExtract(source[pos], ActualVariables(ds_variables))
    ELSE NetcdfExtract(source[pos])

\* the committed rows of a run that belong to a (time, cell) position
RowsFor(r, pos) ==
    LET rows == Committed(r)
        time == SourceTime(pos[1])
        id == IdOf(pos)
    IN  {n \in 1..Len(rows) : rows[n].time = time /\ rows[n].coordinate_id = id}

SameRows(r1, r2) ==
    LET rows1 == Committed(r1)
        rows2 == Committed(r2)
    IN  Len(rows1) = Len(rows2) /\ Range(rows1) = Range(rows2)

\* C5: for a fixed source dataset and mapping, the final committed
\* WeatherValue rows (count and field values) are the same for any two batch
\* sizes, in convert_netCFD and in convert_grib.
C5_BatchSizeInvariance ==
    conv_pc \in {"returned", "raised"} => SameRows(1, 2)

\* The part of C5 that the code keeps: a conversion that returns commits
\* the same rows for both batch sizes.
BatchSizeInvarianceOnReturn ==
    conv_pc = "returned" => SameRows(1, 2)

\* C6: in convert_grib a cell with a NaN among its five extracted values at a
\* timestep gets no WeatherValue row for that (cell, time), no record with a
\* NaN source is ever buffered, and every other cell of that timestep and of
\* the later timesteps is processed and committed.
C6_GribNaNSkip ==
    conv_format = "grib" =>
        LET actual_variables == ActualVariables(ds_variables)
        IN  \A r \in Runs :
            LET rows == Committed(r) \o weather_values[r]
                committed == Committed(r)
            IN  \A pos \in Positions(coordinates) :
                LET x == GribExtract(source[pos], actual_variables)
                    hasNaN == \E f \in Fields : x[f].kind = "nan"
                    readable == \A f \in Fields : x[f].kind # "index_error"
                    time == SourceTime(pos[1])
                    id == IdOf(pos)
                IN  /\ hasNaN =>
                           \A n \in 1..Len(rows) :
                               ~(rows[n].time = time /\ rows[n].coordinate_id = id)
                    /\ (conv_pc = "returned" /\ readable /\ ~hasNaN) =>
                           Cardinality({n \in 1..Len(committed) :
                               /\ committed[n].time = time
                               /\ committed[n].coordinate_id = id}) = 1
                    /\ (conv_pc = "raised") => conv_error.type = "ValueError"

C6_Witness ==
    /\ conv_format = "grib"
    /\ conv_pc = "returned"
    /\ Len(coordinates) = 2
    /\ isnan(Extracted(<<0, coordinates[1][1][1], coordinates[1][1][2]>>).u100m)
    /\ RowsFor(2, <<0, coordinates[1][1][1], coordinates[1][1][2]>>) = {}
    /\ Cardinality(RowsFor(2, <<0, coordinates[2][1][1], coordinates[2][1][2]>>)) = 1
    /\ Cardinality(RowsFor(2, <<1, coordinates[1][1][1], coordinates[1][1][2]>>)) = 1

\* C7: in both converters an index error at one (time, cell) position is
\* caught, the cell is skipped and the conversion does not abort: it returns,
\* with a committed record for every remaining position.
C7_IndexErrorSkipped ==
    /\ conv_error.type # "IndexError"
    /\ conv_pc = "returned" =>
           \A r \in Runs : \A pos \in Positions(coordinates) :
               LET x == Extracted(pos)
               IN  /\ RaisesIndexError(x) => RowsFor(r, pos) = {}
                   /\ (~RaisesIndexError(x) /\ (conv_format = "netcdf" \/ ~AnyNaN(x))) =>
                          Cardinality(RowsFor(r, pos)) = 1

\* The part of C7 that the code keeps: convert_grib skips the cell.
GribIndexErrorSkipped == conv_format = "grib" => C7_IndexErrorSkipped

C8_WitnessNoFdir ==
    /\ conv_format = "grib"
    /\ conv_pc = "returned"
    /\ ds_variables = {"2t", "100u", "100v", "ssr"}
    /\ Committed(1) # <<>>

\* stored = value / 3600, stated by multiplication
StoredPerHour(stored, value) ==
    IF value.kind = "num"
    THEN stored.kind = "num" /\ stored.v * 3600 = value.v
    ELSE stored.kind = value.kind

\* C9: every record written by either converter stores diffuse irradiance
\* (total - direct) / 3600 and direct irradiance direct / 3600 of the source
\* values at its (time, cell) (direct being half of total when the GRIB
\* dataset has no direct irradiance), and temperature and wind unchanged.
C9_UnitConversion ==
    LET has_fdir == conv_format = "netcdf"
                    \/ \E k \in DOMAIN variable_mapping.fdir :
                           variable_mapping.fdir[k] \in ds_variables
    IN  \A r \in Runs :
        \A record \in Range(Committed(r)) \cup Range(weather_values[r]) :
            \E pos \in Positions(coordinates) :
                /\ record.time = SourceTime(pos[1])
                /\ record.coordinate_id = IdOf(pos)
                /\ LET total == source[pos].ssrd
                       direct == IF has_fdir THEN source[pos].fdir
                                 ELSE [kind |-> total.kind, v |-> total.v \div 2]
                   IN  /\ ~has_fdir => direct.v * 2 = total.v
                       /\ StoredPerHour(record.aswdifd_s,
                              IF total.kind = "num" /\ direct.kind = "num"
                              THEN Num(total.v - direct.v) ELSE NaN)
                       /\ StoredPerHour(record.aswdir_s, direct)
                       /\ record.t2m = source[pos].t2m
                       /\ record.u131m = source[pos].u100m
                       /\ record.v131m = source[pos].v100m

\* the example of the specification: total 7200, direct 3600 -> 1 and 1
C9_Witness ==
    /\ conv_pc = "returned"
    /\ \E n \in 1..Len(Committed(1)) :
           /\ source[<<0, 0, 0>>].ssrd = Num(7200)
           /\ source[<<0, 0, 0>>].fdir = Num(3600)
           /\ Committed(1)[n].time = SourceTime(0)
           /\ Committed(1)[n].coordinate_id = IdOf(<<0, 0, 0>>)
           /\ Committed(1)[n].aswdifd_s = Num(1)
           /\ Committed(1)[n].aswdir_s = Num(1)

(***************************************************************************)
(* Migration Step: migrate_time_column. The statements run on one          *)
(* connection inside engine.begin(): the transaction commits when the      *)
(* block ends and rolls back when an exception leaves it.                  *)
(***************************************************************************)
Put(tables, name, table) ==
    [n \in DOMAIN tables \cup {name} |-> IF n = name THEN table ELSE tables[n]]

Drop(tables, name) == [n \in DOMAIN tables \ {name} |-> tables[n]]

\* The offsets of the session time zones of the model: UTC and UTC+1.
TimeZoneOffsets == {0, 3600}

\* REPLACE(time::text, 'Z', '+00')::timestamptz: a text that ends in "Z" or
\* "+00" is read as UTC; a text with no zone (the text of a timestamp without
\* time zone) is read as local time of the session's TimeZone.
ConvertTime(time) ==
    IF time.zone = ""
    THEN [sec |-> time.sec - session_timezone, zone |-> "+00"]
    ELSE [sec |-> time.sec, zone |-> "+00"]

ConvertRow(row) == [row EXCEPT !.time = ConvertTime(row.time)]

DuplicateKeys(rows) ==
    \E r1 \in rows : \E r2 \in rows :
        r1 # r2 /\ r1.time = r2.time /\ r1.coordinate_id = r2.coordinate_id

Failed(tables) == [ok |-> FALSE, tables |-> tables]

Done(tables) == [ok |-> TRUE, tables |-> tables]

\* lines 30-66: the effect of statement k of migration_steps on the tables
Execute(k, tables) ==
    IF k = 1 THEN        \* CREATE TABLE weathervalue_temp AS SELECT ... WHERE 1=0
        IF "weathervalue" \notin DOMAIN tables \/ "weathervalue_temp" \in DOMAIN tables
        THEN Failed(tables)
        ELSE Done(Put(tables, "weathervalue_temp",
                 [time_type |-> tables["weathervalue"].time_type,
                  primary_key |-> FALSE, rows |-> {}]))
    ELSE IF k = 2 THEN   \* ALTER TABLE weathervalue_temp ALTER COLUMN time TYPE timestamptz
        IF "weathervalue_temp" \notin DOMAIN tables THEN Failed(tables)
        ELSE Done(Put(tables, "weathervalue_temp",
                 [time_type |-> "timestamptz",
                  primary_key |-> tables["weathervalue_temp"].primary_key,
                  rows |-> {ConvertRow(r) : r \in tables["weathervalue_temp"].rows}]))
    ELSE IF k = 3 THEN   \* INSERT INTO weathervalue_temp SELECT ... FROM weathervalue
        IF "weathervalue_temp" \notin DOMAIN tables \/ "weathervalue" \notin DOMAIN tables
        THEN Failed(tables)
        ELSE LET copy == tables["weathervalue_temp"].rows
                             \cup {ConvertRow(r) : r \in tables["weathervalue"].rows}
             IN  IF tables["weathervalue_temp"].primary_key /\ DuplicateKeys(copy)
                 THEN Failed(tables)
                 ELSE Done(Put(tables, "weathervalue_temp",
                          [tables["weathervalue_temp"] EXCEPT !.rows = copy]))
    ELSE IF k = 4 THEN   \* ALTER TABLE weathervalue_temp ADD PRIMARY KEY (time, coordinate_id)
        IF "weathervalue_temp" \notin DOMAIN tables
           \/ DuplicateKeys(tables["weathervalue_temp"].rows)
        THEN Failed(tables)
        ELSE Done(Put(tables, "weathervalue_temp",
                 [tables["weathervalue_temp"] EXCEPT !.primary_key = TRUE]))
    ELSE IF k = 5 THEN   \* ALTER TABLE weathervalue RENAME TO weathervalue_old
        IF "weathervalue" \notin DOMAIN tables \/ "weathervalue_old" \in DOMAIN tables
        THEN Failed(tables)
        ELSE Done(Drop(Put(tables, "weathervalue_old", tables["weathervalue"]),
                       "weathervalue"))
    ELSE IF k = 6 THEN   \* ALTER TABLE weathervalue_temp RENAME TO weathervalue
        IF "weathervalue_temp" \notin DOMAIN tables \/ "weathervalue" \in DOMAIN tables
        THEN Failed(tables)
        ELSE Done(Drop(Put(tables, "weathervalue", tables["weathervalue_temp"]),
                       "weathervalue_temp"))
    ELSE                 \* DROP TABLE weathervalue_old
        IF "weathervalue_old" \notin DOMAIN tables THEN Failed(tables)
        ELSE Done(Drop(tables, "weathervalue_old"))

NumSteps == 7

\* Mutant: the failure of a statement is swallowed and the loop goes on.
StatementFailedContinue(k) ==
    /\ mig_failed_at' = k
    /\ mig_step' = k
    /\ UNCHANGED <<db_tables, tx_tables, mig_pc, mig_raised>>

\* lines 69-78: the exception leaves the engine.begin() block, which rolls
\* the transaction back; the except clause prints and re-raises
StatementFailed(k) ==
    /\ mig_failed_at' = k
    /\ tx_tables' = db_tables
    /\ mig_pc' = "failed"
    /\ mig_raised' = TRUE
    /\ UNCHANGED <<db_tables, mig_step>>

\* line 69: engine.begin() opens the connection and the transaction
MigBegin ==
    /\ mig_pc = "start"
    /\ mig_pc' = "running"
    /\ tx_tables' = db_tables
    /\ UNCHANGED <<db_tables, mig_step, mig_failed_at, mig_raised, mig_original,
                   session_timezone>>
    /\ UNCHANGED <<gridVars, dedupVars, convVars, runVars>>

\* lines 70-72: the next statement executes
MigExecute ==
    /\ mig_pc = "running"
    /\ mig_step < NumSteps
    /\ Execute(mig_step + 1, tx_tables).ok
    /\ tx_tables' = Execute(mig_step + 1, tx_tables).tables
    /\ mig_step' = mig_step + 1
    /\ UNCHANGED <<db_tables, mig_pc, mig_failed_at, mig_raised, mig_original,
                   session_timezone>>
    /\ UNCHANGED <<gridVars, dedupVars, convVars, runVars>>

\* lines 70-78: the next statement fails: by its own precondition, or for an
\* outside reason (connection lost, lock timeout, disk full)
MigFail ==
    /\ mig_pc = "running"
    /\ mig_step < NumSteps
    /\ StatementFailed(mig_step + 1)
    /\ UNCHANGED <<mig_original, session_timezone>>
    /\ UNCHANGED <<gridVars, dedupVars, convVars, runVars>>

\* lines 69-74: the block ends and the transaction commits
MigCommit ==
    /\ mig_pc = "running"
    /\ mig_step = NumSteps
    /\ db_tables' = tx_tables
    /\ mig_pc' = "done"
    /\ UNCHANGED <<tx_tables, mig_step, mig_failed_at, mig_raised, mig_original,
                   session_timezone>>
    /\ UNCHANGED <<gridVars, dedupVars, convVars, runVars>>

\* The rows of weathervalue before the migration.
TimeTypes == [varchar |-> "Z", timestamp |-> "", timestamptz |-> "+00"]

InitialRows(zone) ==
    UNION {{{[rid |-> n, time |-> [sec |-> f[n][1], zone |-> zone],
              coordinate_id |-> f[n][2], t2m |-> 280 + n] : n \in 1..k} :
               f \in [1..k -> {0, 3600} \X {0, 1}]} : k \in 0..MaxRows}

InitialTables ==
    UNION {{[time_type |-> type, primary_key |-> pk, rows |-> rows] :
               rows \in {rs \in InitialRows(TimeTypes[type]) : pk => ~DuplicateKeys(rs)}} :
           type \in DOMAIN TimeTypes, pk \in BOOLEAN}

MigInit ==
    /\ GridIdle
    /\ DedupIdle
    /\ ConvIdle
    /\ RunIdle
    /\ mig_original \in InitialTables
    /\ session_timezone \in TimeZoneOffsets
    /\ db_tables = [n \in {"weathervalue"} |-> mig_original]
    /\ tx_tables = db_tables
    /\ mig_pc = "start"
    /\ mig_step = 0
    /\ mig_failed_at = 0
    /\ mig_raised = FALSE

MigNext == MigBegin \/ MigExecute \/ MigFail \/ MigCommit

SpecMig == MigInit /\ [][MigNext]_vars

\* C10: when a statement of migrate_time_column fails, the migration is
\* aborted (no later statement runs, the error reaches the caller), and when
\* the failed statement comes before the rename of the original table, table
\* weathervalue keeps its original structure and all of its original rows.
C10_MigrationFailure ==
    mig_failed_at # 0 =>
        /\ mig_pc = "failed"
        /\ mig_raised
        /\ mig_step = mig_failed_at - 1
        /\ mig_failed_at <= 4 =>
               /\ "weathervalue" \in DOMAIN db_tables
               /\ db_tables["weathervalue"] = mig_original

C10_Witness ==
    /\ mig_pc = "failed"
    /\ mig_failed_at = 4
    /\ DuplicateKeys(mig_original.rows)
    /\ db_tables["weathervalue"] = mig_original

\* Stronger than C10: whatever statement fails, the committed tables are
\* the ones of before the migration.
RollbackRestoresAll ==
    mig_failed_at # 0 => db_tables = [n \in {"weathervalue"} |-> mig_original]

\* The instant of a stored time: the converters write UTC wall-clock times
\* (convert.py lines 40, 67 and 184-187), whatever text form the column keeps.
Instant(time) == time.sec

\* the new table holds one row per original row, values and key unchanged
\* but for the representation of time
OneRowPerOriginal(new_rows, old_rows, same_time(_, _)) ==
    /\ Cardinality(new_rows) = Cardinality(old_rows)
    /\ \A o \in old_rows :
           Cardinality({n \in new_rows :
               /\ n.rid = o.rid
               /\ n.coordinate_id = o.coordinate_id
               /\ n.t2m = o.t2m
               /\ same_time(n.time, o.time)}) = 1

SameInstant(t1, t2) == Instant(t1) = Instant(t2)

AnyTime(t1, t2) == TRUE

\* C11: migrate_time_column never silently drops rows: either it succeeds
\* and the new table weathervalue holds exactly one row per original row (same
\* coordinate_id and measurements, same instant) under an enforced key (time,
\* coordinate_id), or, when two original rows share (time, coordinate_id), the
\* add-primary-key statement (the fourth) fails and the migration fails.
C11_NoSilentDrop ==
    /\ mig_pc = "done" =>
           /\ "weathervalue" \in DOMAIN db_tables
           /\ db_tables["weathervalue"].primary_key
           /\ db_tables["weathervalue"].time_type = "timestamptz"
           /\ ~DuplicateKeys(db_tables["weathervalue"].rows)
           /\ OneRowPerOriginal(db_tables["weathervalue"].rows, mig_original.rows,
                                SameInstant)
    /\ DuplicateKeys(mig_original.rows) =>
           /\ mig_pc # "done"
           /\ mig_step <= 3

\* The part of C11 that the code keeps in every session time zone: no row is
\* dropped or added, the key is enforced, duplicates stop the migration.
MigrationKeepsRows ==
    /\ mig_pc = "done" =>
           /\ db_tables["weathervalue"].primary_key
           /\ db_tables["weathervalue"].time_type = "timestamptz"
           /\ ~DuplicateKeys(db_tables["weathervalue"].rows)
           /\ OneRowPerOriginal(db_tables["weathervalue"].rows, mig_original.rows,
                                AnyTime)
    /\ DuplicateKeys(mig_original.rows) => (mig_pc # "done" /\ mig_step <= 3)

\* C11 as a whole holds when the times carry their zone or the session runs
\* in UTC.
MigrationKeepsInstantInUTC ==
    (session_timezone = 0 \/ mig_original.time_type # "timestamp") => C11_NoSilentDrop

\* a migrated table whose rows have moved by the session's offset
C11_ShiftedInstant ==
    /\ mig_pc = "done"
    /\ mig_original.time_type = "timestamp"
    /\ session_timezone = 3600
    /\ \E o \in mig_original.rows : \E n \in db_tables["weathervalue"].rows :
           n.rid = o.rid /\ Instant(n.time) = Instant(o.time) - 3600

(***************************************************************************)
(* Ingestion run: main (command process-netcdf) and process_weather_data.  *)
(* The run calls the grid builder or the deduplicator, then a converter,   *)
(* then the migration: the actions above are the steps it takes there.     *)
(* Module processor uses the globals logger and logging but binds neither  *)
(* (processor.py lines 5-24): the names resolve only when the environment  *)
(* has bound them in the module, otherwise their first use raises          *)
(* NameError.                                                              *)
(***************************************************************************)
None == "None"

\* config.py lines 24-62, then config.get("input_dir") and
\* config.get("file_name_base") of main.py lines 122-123
load_config(src) ==
    IF ~src.exists
    THEN [input_dir |-> "default", file_name_base |-> "default"]
    ELSE [input_dir |-> IF "input_dir" \in src.keys THEN "configured"
                        ELSE IF "ROOT_DIR" \in src.keys THEN None ELSE "default",
          file_name_base |-> IF "file_name_base" \in src.keys THEN "configured"
                             ELSE None]

\* main.py line 120
main_perform_migration(args_value) == TRUE

\* main.py lines 138-141: the statement after the try block
main_return(raised) == 1

\* processor.py lines 111-121, the names without the base
possible_files ==
    << <<"_accum.nc", "_instant.nc", "netcdf_split">>,
       <<".nc", None, "netcdf_single">>,
       <<".grib", None, "grib_single">>,
       <<".grb", None, "grib_single">>,
       <<".grib2", None, "grib_single">>,
       <<".grb2", None, "grib_single">> >>

NotFound == [found_files |-> <<>>, file_format |-> None, probed |-> {}]

RECURSIVE DiscoverFirstOnly(_, _)
\* Mutant: a candidate is taken as soon as its first file exists.
DiscoverFirstOnly(k, fs) ==
    IF k > Len(possible_files) THEN NotFound
    ELSE IF possible_files[k][1] \in fs
    THEN [found_files |-> <<possible_files[k][1], possible_files[k][2]>>,
          file_format |-> possible_files[k][3],
          probed |-> {possible_files[k][1]}]
    ELSE [DiscoverFirstOnly(k + 1, fs) EXCEPT !.probed = @ \cup {possible_files[k][1]}]

RECURSIVE DiscoverFrom(_, _)
\* processor.py lines 123-141: the loop over possible_files from entry k on
DiscoverFrom(k, fs) ==
    IF k > Len(possible_files) THEN NotFound
    ELSE LET file1 == possible_files[k][1]
             file2 == possible_files[k][2]
             format_type == possible_files[k][3]
         IN  IF file1 \in fs
             THEN IF file2 = None
                  THEN [found_files |-> <<file1, None>>, file_format |-> format_type,
                        probed |-> {file1}]
                  ELSE IF file2 \in fs
                  THEN [found_files |-> <<file1, file2>>, file_format |-> format_type,
                        probed |-> {file1, file2}]
                  ELSE [DiscoverFrom(k + 1, fs) EXCEPT !.probed = @ \cup {file1, file2}]
             ELSE [DiscoverFrom(k + 1, fs) EXCEPT !.probed = @ \cup {file1}]

\* processor.py line 154
max_retries == 5

runInputs == <<args_perform_migration, config_source, files, names_bound>>

discoveryVars == <<probed, found_files, file_format>>

retryVars == <<attempt, retry_delay, sleeps>>

\* an exception leaves process_weather_data and reaches the except clause of
\* main (main.py line 139); leaving the with block closes the session
Raise(type) ==
    /\ run_error' = type
    /\ run_pc' = "except"
    /\ session_state' = IF session_state = "open" THEN "closed" ELSE session_state

\* main.py lines 104-137: load the configuration, call process_weather_data
MainCall ==
    /\ run_pc = "main"
    /\ config' = load_config(config_source)
    /\ perform_migration' = main_perform_migration(args_perform_migration)
    /\ run_pc' = "discover"
    /\ UNCHANGED <<runInputs, discoveryVars, retryVars, run_error, exit_status,
                   session_state, open_datasets>>
    /\ UNCHANGED <<gridVars, dedupVars, convVars, migVars>>

\* processor.py lines 110-148: file discovery; os.path.join(None, file1)
\* raises TypeError
Discover ==
    /\ run_pc = "discover"
    /\ IF config.input_dir = None
       THEN /\ Raise("TypeError")
            /\ UNCHANGED discoveryVars
       ELSE LET d == DiscoverFrom(1, files)
            IN  /\ probed' = d.probed
                /\ found_files' = d.found_files
                /\ file_format' = d.file_format
                /\ IF d.found_files = <<>>
                   THEN Raise("FileNotFoundError")
                   ELSE /\ run_pc' = "found"
                        /\ UNCHANGED <<run_error, session_state>>
    /\ UNCHANGED <<runInputs, config, perform_migration, retryVars, exit_status,
                   open_datasets>>
    /\ UNCHANGED <<gridVars, dedupVars, convVars, migVars>>

\* processor.py line 150: logger.info(...)
LogFound ==
    /\ run_pc = "found"
    /\ IF names_bound
       THEN /\ run_pc' = "session"
            /\ UNCHANGED <<run_error, session_state>>
       ELSE Raise("NameError")
    /\ UNCHANGED <<runInputs, config, perform_migration, discoveryVars, retryVars,
                   exit_status, open_datasets>>
    /\ UNCHANGED <<gridVars, dedupVars, convVars, migVars>>

\* processor.py lines 152-155: the session opens, the retry loop begins
OpenSession ==
    /\ run_pc = "session"
    /\ session_state' = "open"
    /\ attempt' = 0
    /\ retry_delay' = 1
    /\ run_pc' = "db_init"
    /\ UNCHANGED <<runInputs, config, perform_migration, discoveryVars, sleeps,
                   run_error, exit_status, open_datasets>>
    /\ UNCHANGED <<gridVars, dedupVars, convVars, migVars>>

\* Mutant: the delay grows by one second instead of doubling.
InitAttemptLinear ==
    /\ run_pc = "db_init"
    /\ \E outcome \in {"ok", "OperationalError", "ProgrammingError"} :
           IF outcome = "ok"
           THEN /\ run_pc' = "dispatch"
                /\ UNCHANGED <<retryVars, run_error, session_state>>
           ELSE IF outcome = "OperationalError"
           THEN IF attempt < max_retries - 1
                THEN /\ sleeps' = Append(sleeps, retry_delay)
                     /\ retry_delay' = retry_delay + 1
                     /\ attempt' = attempt + 1
                     /\ UNCHANGED <<run_pc, run_error, session_state>>
                ELSE /\ Raise("Exception")
                     /\ UNCHANGED retryVars
           ELSE /\ Raise(outcome)
                /\ UNCHANGED retryVars
    /\ UNCHANGED <<runInputs, config, perform_migration, discoveryVars, exit_status,
                   open_datasets>>
    /\ UNCHANGED <<gridVars, dedupVars, convVars, migVars>>

\* processor.py lines 156-177: one attempt to set up the database; it
\* succeeds, fails with OperationalError, or fails with another error
InitAttempt ==
    /\ run_pc = "db_init"
    /\ \E outcome \in {"ok", "OperationalError", "ProgrammingError"} :
           IF outcome = "ok"
           THEN /\ run_pc' = "dispatch"
                /\ UNCHANGED <<retryVars, run_error, session_state>>
           ELSE IF outcome = "OperationalError"
           THEN IF attempt < max_retries - 1
                THEN /\ sleeps' = Append(sleeps, retry_delay)
                     /\ retry_delay' = retry_delay * 2
                     /\ attempt' = attempt + 1
                     /\ UNCHANGED <<run_pc, run_error, session_state>>
                ELSE /\ Raise("Exception")
                     /\ UNCHANGED retryVars
           ELSE /\ Raise(outcome)
                /\ UNCHANGED retryVars
    /\ UNCHANGED <<runInputs, config, perform_migration, discoveryVars, exit_status,
                   open_datasets>>
    /\ UNCHANGED <<gridVars, dedupVars, convVars, migVars>>

\* The source arrays of a run: sound, or with one bad cell in the first
\* timestep (a NaN or a read out of range in the temperature).
RunSources(items) ==
    LET bad == <<0, items[Len(items)][1][1], items[Len(items)][1][2]>>
    IN  {[pos \in Positions(items) |->
             CellValues(pos, IF pos = bad THEN kind ELSE "ok", "t2m")] :
         kind \in {"ok", "nan", "index_error"}}

\* The variable sets of the GRIB files of a run.
RunVariableSets == {FirstAliases, {"2t", "100u", "100v", "ssr"}, FirstAliases \ {"t2m"}}

\* processor.py lines 182-193 and 239-244: Dataset(...) opens the files in
\* order; a file that cannot be read raises OSError and leaves the files
\* opened before it open
OpenNetcdf ==
    /\ run_pc = "dispatch"
    /\ file_format \in {"netcdf_split", "netcdf_single"}
    /\ LET paths == SelectSeq(found_files, LAMBDA f : f # None)
       IN  \E opened \in 0..Len(paths) :
               /\ open_datasets' = open_datasets \cup {paths[n] : n \in 1..opened}
               /\ IF opened = Len(paths)
                  THEN \E g \in GridShapes :
                           /\ weather_lats' = g[1]
                           /\ weather_lons' = g[2]
                           /\ grid_pc' = "start"
                           /\ run_pc' = "coordinates"
                           /\ UNCHANGED <<run_error, session_state>>
                  ELSE /\ Raise("OSError")
                       /\ UNCHANGED <<weather_lats, weather_lons, grid_pc>>
    /\ UNCHANGED <<session_add_all, session_commits, grid_result>>
    /\ UNCHANGED <<runInputs, config, perform_migration, discoveryVars, retryVars,
                   exit_status>>
    /\ UNCHANGED <<dedupVars, convVars, migVars>>

\* the converter is called with the mapping, the source and a batch size
CallConverter(format, items) ==
    /\ conv_format' = format
    /\ coordinates' = items
    /\ ds_variables' \in IF format = "grib" THEN RunVariableSets ELSE {FirstAliases}
    /\ source' \in RunSources(items)
    /\ \E b \in 1..MaxBatch : batch_size' = [r \in Runs |-> b]
    /\ conv_pc' = "start"
    /\ UNCHANGED <<time_idx, cell_idx, weather_values, total_records, session_batches,
                   conv_error>>

\* processor.py lines 195-207 and 246-260: create_coordinates_df has
\* returned or raised; session.commit(), then convert_netCFD is called
NetcdfConvert ==
    /\ run_pc = "coordinates"
    /\ grid_pc \in {"returned", "raised"}
    /\ IF grid_pc = "raised"
       THEN /\ Raise("IntegrityError")
            /\ UNCHANGED convVars
       ELSE /\ CallConverter("netcdf", GridItems(weather_lats, weather_lons))
            /\ run_pc' = "convert"
            /\ UNCHANGED <<run_error, session_state>>
    /\ UNCHANGED <<runInputs, config, perform_migration, discoveryVars, retryVars,
                   exit_status, open_datasets>>
    /\ UNCHANGED <<gridVars, dedupVars, migVars>>

\* processor.py lines 217-224 and 74-79, convert.py lines 283-336:
\* get_grib_coordinates opens the file, reads the axes and closes it; when it
\* raises after the open, the dataset is not closed
GribCoordinates ==
    /\ run_pc = "dispatch"
    /\ file_format = "grib_single"
    /\ \E outcome \in {"ok", "OSError", "ValueError"} :
           IF outcome = "ok"
           THEN \E g \in GridShapes :
                    /\ weather_lats' = g[1]
                    /\ weather_lons' = g[2]
                    /\ run_pc' = "grib_coordinates"
                    /\ UNCHANGED <<run_error, session_state, open_datasets>>
           ELSE /\ Raise(outcome)
                /\ open_datasets' = IF outcome = "ValueError"
                                    THEN open_datasets \cup {"grib_coordinates"}
                                    ELSE open_datasets
                /\ UNCHANGED <<weather_lats, weather_lons>>
    /\ UNCHANGED <<grid_pc, session_add_all, session_commits, grid_result>>
    /\ UNCHANGED <<runInputs, config, perform_migration, discoveryVars, retryVars,
                   exit_status>>
    /\ UNCHANGED <<dedupVars, convVars, migVars>>

\* the number of cells of the GRIB grid, and whether the last call of
\* insert_coordinate raised
GribCells == Len(weather_lats) * Len(weather_lons)

LastCallRaised == calls # <<>> /\ calls[Len(calls)].raised

\* processor.py lines 81-87: the next cell, in the order lat_idx, lon_idx
GribInsertCell ==
    /\ run_pc = "grib_coordinates"
    /\ Len(calls) < GribCells
    /\ ~LastCallRaised
    /\ LET lat_idx == Len(calls) \div Len(weather_lons)
           lon_idx == Len(calls) % Len(weather_lons)
       IN  InsertCoordinate(weather_lats[lat_idx + 1], weather_lons[lon_idx + 1])

\* processor.py line 87: coordinates_dict[(lat_idx, lon_idx)] = coordinate_id
GribDictItems ==
    [k \in 1..Len(calls) |->
        << <<(k - 1) \div Len(weather_lons), (k - 1) % Len(weather_lons)>>,
           calls[k].ret >>]

\* processor.py lines 224-233: create_coordinates_from_grib has returned or
\* raised; session.commit(), then convert_grib is called
GribConvert ==
    /\ run_pc = "grib_coordinates"
    /\ Len(calls) = GribCells \/ LastCallRaised
    /\ IF LastCallRaised
       THEN /\ Raise("IntegrityError")
            /\ UNCHANGED convVars
       ELSE /\ CallConverter("grib", GribDictItems)
            /\ run_pc' = "convert"
            /\ UNCHANGED <<run_error, session_state>>
    /\ UNCHANGED <<runInputs, config, perform_migration, discoveryVars, retryVars,
                   exit_status, open_datasets>>
    /\ UNCHANGED <<gridVars, dedupVars, migVars>>

\* processor.py lines 208-213, 234 and 261-264: the converter has returned
\* (commit, close the NetCDF datasets, leave the with block) or raised
ConversionEnds ==
    /\ run_pc = "convert"
    /\ conv_pc \in {"returned", "raised"}
    /\ IF conv_pc = "returned"
       THEN /\ open_datasets' = {}
            /\ session_state' = "closed"
            /\ run_pc' = "after_session"
            /\ UNCHANGED run_error
       ELSE /\ Raise(conv_error.type)
            /\ UNCHANGED open_datasets
    /\ UNCHANGED <<runInputs, config, perform_migration, discoveryVars, retryVars,
                   exit_status>>
    /\ UNCHANGED <<gridVars, dedupVars, convVars, migVars>>

\* table weathervalue as the run has filled it: created from the model class
\* (time TIMESTAMP, primary key (time, coordinate_id))
RunWeatherTable ==
    LET rows == Committed(1)
    IN  [time_type |-> "timestamp", primary_key |-> TRUE,
         rows |-> {[rid |-> n, time |-> [sec |-> rows[n].time \div 1000, zone |-> ""],
                    coordinate_id |-> rows[n].coordinate_id, t2m |-> rows[n].t2m.v] :
                   n \in 1..Len(rows)}]

\* processor.py lines 266-268: if perform_migration: migrate_time_column()
AfterSession ==
    /\ run_pc = "after_session"
    /\ IF perform_migration
       THEN /\ mig_pc' = "start"
            /\ db_tables' = [n \in {"weathervalue"} |-> RunWeatherTable]
            /\ tx_tables' = db_tables'
            /\ mig_original' = RunWeatherTable
            /\ run_pc' = "migrate"
       ELSE /\ run_pc' = "returned"
            /\ UNCHANGED <<mig_pc, db_tables, tx_tables, mig_original>>
    /\ UNCHANGED <<mig_step, mig_failed_at, mig_raised, session_timezone>>
    /\ UNCHANGED <<runInputs, config, perform_migration, discoveryVars, retryVars,
                   run_error, exit_status, session_state, open_datasets>>
    /\ UNCHANGED <<gridVars, dedupVars, convVars>>

\* processor.py line 268: migrate_time_column has returned or raised
MigrationEnds ==
    /\ run_pc = "migrate"
    /\ mig_pc \in {"done", "failed"}
    /\ IF mig_pc = "done"
       THEN /\ run_pc' = "returned"
            /\ UNCHANGED <<run_error, session_state>>
       ELSE Raise("MigrationError")
    /\ UNCHANGED <<runInputs, config, perform_migration, discoveryVars, retryVars,
                   exit_status, open_datasets>>
    /\ UNCHANGED <<gridVars, dedupVars, convVars, migVars>>

\* main.py lines 138-141: process_weather_data has returned, or the except
\* clause has logged the error; main returns
MainReturn ==
    /\ run_pc \in {"returned", "except"}
    /\ exit_status' = main_return(run_pc = "except")
    /\ run_pc' = "exited"
    /\ UNCHANGED <<runInputs, config, perform_migration, discoveryVars, retryVars,
                   run_error, session_state, open_datasets>>
    /\ UNCHANGED <<gridVars, dedupVars, convVars, migVars>>

\* The configuration files and the input directories a run can start from.
AllKeys == {"ROOT_DIR", "input_dir", "file_name_base"}

ConfigSources ==
    {[exists |-> FALSE, keys |-> {}]}
        \cup {[exists |-> TRUE, keys |-> ks] :
                 ks \in {AllKeys, AllKeys \ {"ROOT_DIR"}, AllKeys \ {"input_dir"},
                         {"file_name_base"}, AllKeys \ {"file_name_base"}}}

FileSets ==
    {{}, {"_accum.nc"}, {"_instant.nc", ".grb"}, {"_accum.nc", ".grib2", ".grb2"},
     {"_accum.nc", "_instant.nc", ".nc", ".grib"}, {".nc", ".grib"},
     {".grib", ".grb"}, {".grb2"}}

RunInit ==
    /\ GridIdle
    /\ ConvIdle
    /\ coordinate_table \in RunStartTables
    /\ calls = <<>>
    /\ caller_pc = [c \in Callers |-> "idle"]
    /\ caller_arg = [c \in Callers |-> <<0, 0>>]
    /\ caller_new_id = [c \in Callers |-> 0]
    /\ db_tables = [n \in {"weathervalue"} |-> EmptyTable]
    /\ tx_tables = db_tables
    /\ mig_pc = "idle"
    /\ mig_step = 0
    /\ mig_failed_at = 0
    /\ mig_raised = FALSE
    /\ mig_original = EmptyTable
    /\ session_timezone \in TimeZoneOffsets
    /\ args_perform_migration \in BOOLEAN
    /\ config_source \in ConfigSources
    /\ files \in FileSets
    /\ names_bound \in BOOLEAN
    /\ run_pc = "main"
    /\ config = NoConfig
    /\ probed = {}
    /\ found_files = <<>>
    /\ file_format = "None"
    /\ perform_migration = FALSE
    /\ run_error = "none"
    /\ exit_status = -1
    /\ session_state = "none"
    /\ attempt = 0
    /\ retry_delay = 0
    /\ sleeps = <<>>
    /\ open_datasets = {}

RunNext ==
    \/ MainCall
    \/ Discover
    \/ LogFound
    \/ OpenSession
    \/ InitAttempt
    \/ OpenNetcdf
    \/ CreateCoordinatesDf
    \/ NetcdfConvert
    \/ GribCoordinates
    \/ GribInsertCell
    \/ GribConvert
    \/ NetcdfOpen
    \/ NetcdfCell
    \/ GribOpen
    \/ GribCell
    \/ FinalFlush
    \/ ConversionEnds
    \/ AfterSession
    \/ MigBegin
    \/ MigExecute
    \/ MigFail
    \/ MigCommit
    \/ MigrationEnds
    \/ MainReturn

SpecRun == RunInit /\ [][RunNext]_vars

\* C12: the process-netcdf command returns exit status 0 when
\* process_weather_data completes without raising, and exit status 1 when an
\* exception reaches the top level.
C12_ExitStatus ==
    run_pc = "exited" =>
        IF run_error = "none" THEN exit_status = 0 ELSE exit_status = 1

\* The part of C12 that the code keeps: an exception gives exit status 1.
ExitStatusOnError ==
    (run_pc = "exited" /\ run_error # "none") => exit_status = 1

\* a run that completed, migration included, and returned 1
C12_SuccessReturnsOne ==
    /\ run_pc = "exited"
    /\ run_error = "none"
    /\ mig_pc = "done"
    /\ exit_status = 1

\* C13: under --no-migration the migration is never executed in the run; the
\* value of the flag is what reaches process_weather_data as
\* perform_migration.
C13_NoMigrationFlag ==
    /\ run_pc \notin {"idle", "main"} => perform_migration = args_perform_migration
    /\ ~args_perform_migration => mig_pc = "idle"

\* a run under --no-migration whose migration has executed statements
C13_MigratedAnyway ==
    /\ ~args_perform_migration
    /\ mig_pc = "done"
    /\ mig_step = NumSteps

\* candidate k of possible_files exists: its file, and its second file if
\* it has one
CandidateExists(k) ==
    /\ possible_files[k][1] \in files
    /\ possible_files[k][2] # None => possible_files[k][2] \in files

NothingWritten ==
    /\ session_add_all = <<>>
    /\ calls = <<>>
    /\ \A r \in Runs : session_batches[r] = <<>>
    /\ db_tables = [n \in {"weathervalue"} |-> EmptyTable]

\* C14: process_weather_data takes the first candidate that exists in the
\* order <base>_accum.nc + <base>_instant.nc (both must exist), <base>.nc,
\* <base>.grib, <base>.grb, <base>.grib2, <base>.grb2, and works on it; when
\* no candidate exists it raises FileNotFoundError before a session is opened
\* or a row is written.
C14_Discovery ==
    (run_pc \notin {"idle", "main", "discover"} /\ config.input_dir # None) =>
        IF \E k \in DOMAIN possible_files : CandidateExists(k)
        THEN LET first == CHOOSE k \in DOMAIN possible_files :
                              /\ CandidateExists(k)
                              /\ \A m \in DOMAIN possible_files : CandidateExists(m) => k <= m
             IN  /\ found_files = <<possible_files[first][1], possible_files[first][2]>>
                 /\ file_format = possible_files[first][3]
                 /\ run_error # "FileNotFoundError"
                 /\ open_datasets \subseteq Range(found_files) \cup {"grib_coordinates"}
                 /\ conv_format = "netcdf" => first \in {1, 2}
                 /\ conv_format = "grib" => first \in 3..6
                 /\ grid_pc # "idle" => first \in {1, 2}
                 /\ calls # <<>> => first \in 3..6
        ELSE /\ run_error = "FileNotFoundError"
             /\ found_files = <<>>
             /\ session_state = "none"
             /\ NothingWritten

C14_Witness ==
    /\ files = {"_accum.nc", ".grib2", ".grb2"}
    /\ found_files = <<".grib2", None>>
    /\ file_format = "grib_single"
    /\ conv_format = "grib"
    /\ conv_pc = "returned"

C14_WitnessNotFound ==
    /\ files = {"_accum.nc"}
    /\ run_pc = "exited"
    /\ run_error = "FileNotFoundError"

\* the configuration file is missing, or lacks input_dir or file_name_base
ConfigurationError ==
    \/ ~config_source.exists
    \/ ~({"input_dir", "file_name_base"} \subseteq config_source.keys)

\* C15: a configuration error (file missing, or a required key missing) is
\* fatal: the run reports it and exits with a non-zero status before any data
\* is touched: no file discovery, no database session, no write.
C15_ConfigErrorFatal ==
    ConfigurationError =>
        /\ probed = {}
        /\ found_files = <<>>
        /\ session_state = "none"
        /\ NothingWritten
        /\ run_pc = "exited" => (exit_status # 0 /\ run_error # "none")

\* a run without a configuration file that ingested the files of the default
\* directory
C15_IngestedOnDefaults ==
    /\ ~config_source.exists
    /\ conv_pc = "returned"
    /\ \A r \in Runs : session_batches[r] # <<>>

\* the coordinate rows the run has committed itself
CommittedInRun ==
    (IF grid_pc = "returned"
     THEN UNION {Range(session_add_all[k]) : k \in 1..Len(session_add_all)}
     ELSE {})
        \cup UNION {calls[k].inserted : k \in 1..Len(calls)}

\* the WeatherValue records of a run: committed, or still in the buffer
Records(r) == Range(Committed(r)) \cup Range(weather_values[r])

\* C16 as stated: every committed WeatherValue row has the id of a
\* Coordinate row that was committed earlier in the same run.
C16_CommittedInRun ==
    \A r \in Runs : \A row \in Range(Committed(r)) :
        \E c \in CommittedInRun : c.id = row.coordinate_id

\* C16, amended: every WeatherValue record has the id of a committed
\* Coordinate row, committed earlier in the run or found in the table by
\* insert_coordinate; the mapping is persisted before the converter is called,
\* and the converters use ids of the mapping only.
C16_ReferentialIntegrity ==
    /\ conv_pc # "idle" =>
           \A n \in 1..Len(coordinates) :
               \E c \in coordinate_table : c.id = coordinates[n][2]
    /\ \A r \in Runs : \A row \in Records(r) :
           /\ \E n \in 1..Len(coordinates) : coordinates[n][2] = row.coordinate_id
           /\ \E c \in coordinate_table : c.id = row.coordinate_id

\* a GRIB run that stored weather values under a coordinate it found in the
\* table, next to one it inserted
C16_Witness ==
    /\ conv_format = "grib"
    /\ run_pc = "exited"
    /\ Len(calls) = 2
    /\ calls[1].inserted # {}
    /\ calls[2].inserted = {}
    /\ \E row \in Range(Committed(1)) : row.coordinate_id = calls[1].ret
    /\ \E row \in Range(Committed(1)) :
           /\ row.coordinate_id = calls[2].ret
           /\ \A c \in CommittedInRun : c.id # row.coordinate_id

C16_WitnessNetcdf ==
    /\ conv_format = "netcdf"
    /\ run_pc = "exited"
    /\ Len(Committed(1)) = 2 * NumTimes

\* a record is constructed at a position when its values can be read and,
\* in convert_grib, none is NaN
Constructed(pos) ==
    LET x == Extracted(pos)
    IN  ~RaisesIndexError(x) /\ (conv_format = "netcdf" \/ ~AnyNaN(x))

\* every record constructed has been committed exactly once
AllCommittedOnce(r) ==
    /\ Len(Committed(r)) = total_records[r]
    /\ \A pos \in Positions(coordinates) :
           Cardinality(RowsFor(r, pos)) = IF Constructed(pos) THEN 1 ELSE 0

\* while the loops run, the flushed batches are full, the buffer is not, and
\* every record is in one of them
FlushedWhenFull(r) ==
    /\ conv_pc \in {"loop", "final", "returned"} => Len(weather_values[r]) < batch_size[r]
    /\ conv_pc \in {"loop", "final"} =>
           /\ \A k \in 1..Len(session_batches[r]) :
                  Len(session_batches[r][k]) = batch_size[r]
           /\ Len(Committed(r)) + Len(weather_values[r]) = total_records[r]

\* C18: in both converters the buffer is flushed and cleared exactly when
\* its length reaches batch_size, the remainder is flushed when processing
\* completes, and when the converter returns the buffer is empty and every
\* record constructed has been committed exactly once.
C18_FlushAndClear ==
    \A r \in Runs :
        /\ FlushedWhenFull(r)
        /\ conv_pc = "returned" => (weather_values[r] = <<>> /\ AllCommittedOnce(r))

\* C18, amended: as C18, but when the converter returns the buffer still
\* holds the remainder that the final flush has committed (the final flush
\* does not clear it).
C18_FlushedOnReturn ==
    \A r \in Runs :
        /\ FlushedWhenFull(r)
        /\ conv_pc = "returned" =>
               /\ AllCommittedOnce(r)
               /\ weather_values[r] # <<>> =>
                      weather_values[r] = session_batches[r][Len(session_batches[r])]

\* four records with batch size 3: a full batch, then the remainder
C18_Witness ==
    /\ conv_pc = "returned"
    /\ batch_size[2] = 3
    /\ total_records[2] = 4
    /\ Len(session_batches[2]) = 2
    /\ Len(session_batches[2][1]) = 3
    /\ Len(session_batches[2][2]) = 1
    /\ Len(weather_values[2]) = 1

\* C19: the converters flush the partial buffer at the end of every
\* timestep: when the first cell of a later timestep is about to be processed,
\* the buffer is empty and every record constructed so far is committed.
C19_TimestepFlush ==
    (conv_pc = "loop" /\ time_idx > 0 /\ cell_idx = 1) =>
        \A r \in Runs :
            /\ weather_values[r] = <<>>
            /\ Len(Committed(r)) = total_records[r]

\* convert_grib enters the second timestep with the records of the first one
\* still in the buffer
C19_CarriedOver ==
    /\ conv_format = "grib"
    /\ conv_pc = "loop"
    /\ time_idx = 1
    /\ cell_idx = 1
    /\ Len(weather_values[2]) = 2
    /\ session_batches[2] = <<>>

\* nothing of coordinate creation, conversion or migration has started
NothingStarted ==
    /\ grid_pc = "idle"
    /\ calls = <<>>
    /\ conv_pc = "idle"
    /\ mig_pc = "idle"
    /\ open_datasets = {}

\* the waits so far are 1, 2, 4, 8 seconds, one after each failed attempt
BackoffSchedule ==
    /\ attempt <= max_retries - 1
    /\ Len(sleeps) = attempt
    /\ \A k \in 1..Len(sleeps) : sleeps[k] = 2 ^ (k - 1)
    /\ run_pc = "db_init" => (retry_delay = 2 ^ attempt /\ NothingStarted)
    /\ run_error = "Exception" => (attempt = max_retries - 1 /\ NothingStarted)

\* a step of the run keeps the retry loop to the database setup: a success
\* ends it, and a converter or a migration that has raised is not started
\* again, its error reaches the caller
FailFast ==
    /\ run_pc \notin {"session", "db_init"} => UNCHANGED retryVars
    /\ (run_pc = "db_init" /\ run_pc' = "dispatch") => UNCHANGED retryVars
    /\ conv_pc = "raised" =>
           /\ conv_pc' = "raised"
           /\ UNCHANGED <<session_batches, mig_pc>>
           /\ (run_pc = "convert" /\ run_pc' # run_pc) =>
                  (run_pc' = "except" /\ run_error' = conv_error.type)
    /\ mig_pc = "failed" =>
           /\ mig_pc' = "failed"
           /\ UNCHANGED <<db_tables, conv_pc>>
           /\ (run_pc = "migrate" /\ run_pc' # run_pc) =>
                  (run_pc' = "except" /\ run_error' = "MigrationError")
    /\ run_pc = "except" => run_pc' \in {"except", "exited"}

\* C21: the database setup of process_weather_data is attempted at most 5
\* times; after the k-th OperationalError (k < 5) the run sleeps 2^(k-1)
\* seconds and tries again, the first success ends the loop, the fifth failure
\* is raised as an error before coordinate creation, conversion or migration
\* has started; conversion and migration are not retried, their first failure
\* propagates.
C21_BoundedBackoff == []BackoffSchedule /\ [][FailFast]_vars

\* five failed attempts: the run has slept 1, 2, 4 and 8 seconds and raised
C21_Witness ==
    /\ run_pc = "except"
    /\ run_error = "Exception"
    /\ attempt = 4
    /\ sleeps = <<1, 2, 4, 8>>
    /\ NothingStarted

\* two failed attempts, then a success, and the conversion has run
C21_WitnessRecovered ==
    /\ sleeps = <<1, 2>>
    /\ run_pc = "returned"
    /\ conv_pc = "returned"

\* a conversion that raised after the setup had been retried
C21_WitnessConversionFails ==
    /\ sleeps = <<1>>
    /\ run_pc = "except"
    /\ conv_pc = "raised"
    /\ run_error = conv_error.type

\* convert.py lines 183-270: convert_grib opens its dataset before the loops
\* and closes it in the finally clause, on return and on error alike
grib_ds_open == conv_format = "grib" /\ conv_pc \in {"loop", "final"}

\* the source dataset handles that are open
OpenHandles == open_datasets \cup (IF grib_ds_open THEN {"convert_grib"} ELSE {})

RunHasLeft == run_pc \in {"returned", "except", "exited"}

\* C22: every source dataset handle opened during a run is closed on every
\* exit path of the run, the paths where coordinate creation or conversion
\* raises included, and the session is closed whether the run succeeds or
\* fails.
C22_ReleaseOnExit ==
    RunHasLeft => (OpenHandles = {} /\ session_state # "open")

\* what holds of C22: the session and the dataset of convert_grib are
\* released on every exit path, and all handles are on the path without error
SessionAndConverterReleased ==
    RunHasLeft =>
        /\ session_state # "open"
        /\ ~grib_ds_open
        /\ run_error = "none" => OpenHandles = {}

\* convert_netCFD has raised: the run has left with both NetCDF files open
C22_LeakedNetcdf ==
    /\ run_pc = "except"
    /\ run_error = "IndexError"
    /\ session_state = "closed"
    /\ open_datasets = {"_accum.nc", "_instant.nc"}

\* get_grib_coordinates has raised after opening the file
C22_LeakedGrib ==
    /\ run_pc = "except"
    /\ run_error = "ValueError"
    /\ open_datasets = {"grib_coordinates"}

\* the number of (time, cell) positions the loops have gone through: the
\* position at which convert_netCFD raised is not one of them
ProcessedCount ==
    IF conv_pc \in {"final", "returned"} THEN NumTimes * Len(coordinates)
    ELSE IF conv_pc \in {"loop", "raised"} /\ cell_idx >= 1
    THEN time_idx * Len(coordinates) + (cell_idx - 1)
    ELSE 0

\* the k-th position in processing order: timestep-major, then the order of
\* the mapping's items
PositionAt(k) ==
    LET t == (k - 1) \div Len(coordinates)
        n == ((k - 1) % Len(coordinates)) + 1
    IN  <<t, coordinates[n][1][1], coordinates[n][1][2]>>

\* the record constructed at a position
RecordAt(pos) ==
    WeatherValue(IF conv_format = "netcdf"
                 THEN ParsedTime(FormattedTime(SourceTime(pos[1])))
                 ELSE SourceTime(pos[1]),
                 IdOf(pos), Extracted(pos))

\* the records constructed at the first m positions, in processing order
ConstructedUpTo(m) ==
    LET F[k \in 0..m] ==
            IF k = 0 THEN <<>>
            ELSE IF Constructed(PositionAt(k))
            THEN Append(F[k - 1], RecordAt(PositionAt(k)))
            ELSE F[k - 1]
    IN  F[m]

\* C23: in both converters, at every point of the conversion before the
\* final flush, the committed rows are the first k * batch_size records
\* constructed so far, in processing order, and the buffer holds the rest,
\* fewer than batch_size of them; so when the conversion aborts the flushed
\* batches stay committed and only the buffered records are lost.
C23_CommittedPrefix ==
    conv_pc \in {"start", "loop", "final", "raised"} =>
        LET constructed == ConstructedUpTo(ProcessedCount)
        IN  \A r \in Runs :
                /\ Len(Committed(r)) % batch_size[r] = 0
                /\ Len(weather_values[r]) < batch_size[r]
                /\ Committed(r) \o weather_values[r] = constructed

\* convert_netCFD raised at the fourth position: with batch size 2 the first
\* two records are committed and the third is lost with the buffer
C23_Witness ==
    /\ conv_format = "netcdf"
    /\ conv_pc = "raised"
    /\ batch_size[1] = 2
    /\ total_records[1] = 3
    /\ Len(session_batches[1]) = 1
    /\ Len(Committed(1)) = 2
    /\ Len(weather_values[1]) = 1

\* convert_grib in its second timestep, one cell skipped for a NaN
C23_WitnessGrib ==
    /\ conv_format = "grib"
    /\ conv_pc = "loop"
    /\ time_idx = 1
    /\ cell_idx = 2
    /\ batch_size[1] = 2
    /\ total_records[1] = 2
    /\ Len(Committed(1)) = 2
    /\ ProcessedCount = 3
====
